---- MODULE Spec2Model ----
(***************************************************************************)
(* ParkSpot client data layer: the listings provider (ParkingSpotsContext *)
(* over the Firestore parking-spot service), the auth provider             *)
(* (AuthContext over the Firebase auth service), the location provider     *)
(* (LocationContext) and the search screen's filter/sort pipeline.         *)
(*                                                                         *)
(* Every await of the source is a point where other callbacks may run, so  *)
(* each asynchronous handler is split at its awaits: the call, the         *)
(* gateway's answer, and the continuation that runs when the promise       *)
(* settles.                                                                *)
(***************************************************************************)
EXTENDS Integers, Sequences, FiniteSets, TLC

\* ------------------------------------------------------------------ bounds
\* Listing operations (create/update/delete/fetch/lookup) started in one run.
MaxOps == 2
\* Listing operations awaiting their gateway answer or continuation at once.
MaxInFlight == 2

\* ------------------------------------------------------ values and helpers
NoUser == [uid |-> "none"]
\* `undefined` / null for an optional number (rating, distance).
Undefined == -1

\* A patch id and a patch createdAt that no stored listing carries.
OtherId == MaxOps + 10
OtherTime == 4 * MaxOps + 11

Range(s) == {s[i] : i \in 1..Len(s)}
IdsOf(s) == [i \in 1..Len(s) |-> s[i].id]

\* An insertion that puts x in front of the entries it ties with.
InsertSortedBeforeTies(x, order, cmp) ==
  LET after == {i \in 1..Len(order) : cmp[order[i], x] >= 0}
      p == IF after = {} THEN Len(order) + 1
           ELSE CHOOSE i \in after : \A j \in after : i <= j
  IN SubSeq(order, 1, p - 1) \o <<x>> \o SubSeq(order, p, Len(order))

\* One insertion of a stable sort over positions of the array: x goes before
\* the first position whose element compareFn puts strictly after x's, behind
\* every one it ties with. cmp[i, j] is compareFn(s[i], s[j]).
InsertSorted(x, order, cmp) ==
  LET after == {i \in 1..Len(order) : cmp[order[i], x] > 0}
      p == IF after = {} THEN Len(order) + 1
           ELSE CHOOSE i \in after : \A j \in after : i <= j
  IN SubSeq(order, 1, p - 1) \o <<x>> \o SubSeq(order, p, Len(order))

\* Array.prototype.sort(compareFn), a stable sort; compareFn is handed over
\* tabulated on the positions of s
ArraySort(s, cmp) ==
  LET order[n \in 0..Len(s)] ==
        IF n = 0 THEN << >> ELSE InsertSorted(n, order[n - 1], cmp)
  IN [k \in 1..Len(s) |-> s[order[Len(s)][k]]]

\* Object spread {...base, ...over}
Spread(base, over) ==
  [f \in (DOMAIN base) \cup (DOMAIN over) |->
     IF f \in DOMAIN over THEN over[f] ELSE base[f]]

\* Object rest: the fields of data other than those in drop
Omit(data, drop) == [f \in (DOMAIN data) \ drop |-> data[f]]

VARIABLES
  \* --- PersistenceGateway (Firestore parkingSpots collection)
  db,             \* document id -> document data (no id field inside)
  feed,           \* snapshots of db queued for the onSnapshot listener
  clock,          \* ticks; every clock reading advances it
  \* --- ParkingSpotsProvider state
  spots,          \* allAvailable
  userSpots,      \* mine
  spotsLoading,
  spotsError,
  ops,            \* listing operations in flight
  opCount,        \* listing operations started so far
  imageCleanups,  \* spot ids for which deleteParkingSpotImages was requested
  last,           \* the handler or listener that last ran to completion
  \* --- IdentityGateway (Firebase Auth + Firestore users collection)
  accounts,       \* uid -> the auth account (email, displayName, role chosen)
  authUser,       \* uid of auth.currentUser, or "none"
  userDocs,       \* uid -> user document
  \* --- AuthProvider state
  user,           \* the identity held by the SessionStore, or NoUser
  authLoading,
  authOps,        \* sign-up/in/out and profile operations in flight
  authCount,      \* such operations started so far
  authCalls,      \* onAuthStateChanged callbacks in flight
  authLast,       \* the auth handler that last ran to completion
  \* --- LocationProvider state
  userLocation,
  locLoading,
  locError,
  locOps,         \* getCurrentLocation calls in flight
  locCount,       \* such calls started so far
  locLast,        \* what the last finished getCurrentLocation returned
  \* --- SearchScreen state
  searchQuery,
  maxPrice,
  maxDistance,
  selectedSpotTypes,
  sortBy

listingVars == <<db, feed, clock, spots, userSpots, spotsLoading, spotsError,
                 ops, opCount, imageCleanups, last>>
gatewayVars == <<accounts, authUser, userDocs>>
sessionVars == <<user, authLoading, authOps, authCount, authCalls, authLast>>
authVars == <<gatewayVars, sessionVars>>
locationVars == <<userLocation, locLoading, locError, locOps,
                  locCount, locLast>>
searchVars == <<searchQuery, maxPrice, maxDistance, selectedSpotTypes, sortBy>>
vars == <<listingVars, authVars, locationVars, searchVars>>

\* The server clock and the client clock are not synchronised: a server
\* reading is even, a client reading odd, so the two never coincide.
ServerNow == 2 * clock
ClientNow == 2 * clock + 1
IsServerTime(t) == t % 2 = 0
IsClientTime(t) == t % 2 = 1

\* ------------------------------------------------- parking-spot service
convertDocToSpot(docId, data) ==
  [id |-> docId,
   ownerId |-> data.ownerId,
   title |-> data.title,
   description |-> data.description,
   location |-> [longitude |-> data.location.longitude,
                 address |-> data.location.address,
                 city |-> data.location.city],
   pricePerHour |-> data.pricePerHour,
   isAvailable |-> IF "isAvailable" \in DOMAIN data THEN data.isAvailable
                   ELSE TRUE,
   spotType |-> data.spotType,
   rating |-> IF "rating" \in DOMAIN data THEN data.rating ELSE Undefined,
   createdAt |-> IF "createdAt" \in DOMAIN data THEN data.createdAt
                 ELSE ClientNow,
   updatedAt |-> IF "updatedAt" \in DOMAIN data THEN data.updatedAt
                 ELSE ClientNow]

\* snapshot.docs: the documents of a collection snapshot, in id order
RECURSIVE DocsFrom(_, _)
DocsFrom(snap, ids) ==
  IF ids = {} THEN << >>
  ELSE LET k == CHOOSE i \in ids : \A j \in ids : i <= j
       IN <<convertDocToSpot(k, snap[k])>> \o DocsFrom(snap, ids \ {k})

SnapshotDocs(snap) == DocsFrom(snap, DOMAIN snap)

IsAvailableSpot(s) == s.isAvailable

\* .sort((a, b) => b.createdAt.getTime() - a.createdAt.getTime())
NewestFirst(list) ==
  ArraySort(list, [i \in 1..Len(list), j \in 1..Len(list) |->
                     list[j].createdAt - list[i].createdAt])

\* A listener body that maps and filters but does not sort.
DeriveAvailableUnsorted(snap) ==
  SelectSeq(SnapshotDocs(snap), IsAvailableSpot)

\* the listener body of subscribeToSpots: map, filter, sort
DeriveAvailable(snap) ==
  NewestFirst(SelectSeq(SnapshotDocs(snap), IsAvailableSpot))

\* getUserParkingSpots: where ownerId == userId, map, sort
UserSpotsOf(snap, userId) ==
  LET Mine(s) == s.ownerId = userId
  IN NewestFirst(SelectSeq(SnapshotDocs(snap), Mine))

\* createParkingSpot: the document written by addDoc
CreateDocData(spotData) ==
  Spread(spotData,
         [location |-> [longitude |-> spotData.location.longitude,
                        address |-> spotData.location.address,
                        city |-> spotData.location.city],
          createdAt |-> ServerNow, updatedAt |-> ServerNow])

StrippedId(data) == Omit(data, {"id", "createdAt"})
\* updateParkingSpot: the fields handed to updateDoc
UpdateDocData(data) ==
  Spread(StrippedId(data), [updatedAt |-> ServerNow])

\* --------------------------------------------------- ParkingSpotsProvider
Idle == [kind |-> "none", id |-> 0, data |-> << >>, outcome |-> "none"]

Op(n, kind, id, data) ==
  [n |-> n, kind |-> kind, id |-> id, data |-> data, phase |-> "sent",
   res |-> << >>]

Advance(o, phase) == [o EXCEPT !.phase = phase]
Done(o, outcome) ==
  [kind |-> o.kind, id |-> o.id, data |-> o.data, outcome |-> outcome]

CanStart == opCount < MaxOps /\ Cardinality(ops) < MaxInFlight

\* What the add-spot form submits (AddSpotScreen handleSubmit): the owner is
\* the signed-in user.
SpotInputs ==
  {[ownerId |-> user.uid, title |-> <<"A">>, description |-> <<"b">>,
    location |-> [longitude |-> 0, address |-> << >>, city |-> <<"b">>],
    pricePerHour |-> 10, isAvailable |-> a, spotType |-> "driveway"] :
     a \in BOOLEAN}

\* Partial<ParkingSpot> values handed to updateSpot
Patches ==
  {[title |-> <<"B">>],
   [isAvailable |-> FALSE],
   [isAvailable |-> TRUE],
   [id |-> OtherId, createdAt |-> OtherTime, title |-> <<"B">>]}

KnownIds == (DOMAIN db) \cup Range(IdsOf(spots)) \cup Range(IdsOf(userSpots))

\* addSpot, up to its await of createParkingSpot
AddSpotCall(spotData) ==
  /\ user # NoUser
  /\ CanStart
  /\ ops' = ops \cup {Op(opCount + 1, "create", opCount + 1, spotData)}
  /\ opCount' = opCount + 1
  /\ UNCHANGED <<authVars, locationVars, searchVars>>
  /\ UNCHANGED <<db, feed, clock, spots, userSpots, spotsLoading, spotsError,
                 imageCleanups, last>>

\* createParkingSpot: addDoc commits and the listener is sent a snapshot
BackendCreate(o) ==
  /\ o.kind = "create" /\ o.phase = "sent"
  /\ db' = (o.id :> CreateDocData(o.data)) @@ db
  /\ feed' = Append(feed, db')
  /\ clock' = clock + 1
  /\ ops' = (ops \ {o}) \cup {Advance(o, "acked")}
  /\ UNCHANGED <<authVars, locationVars, searchVars>>
  /\ UNCHANGED <<spots, userSpots, spotsLoading, spotsError, opCount,
                 imageCleanups, last>>

\* the gateway rejects a write or a read (network, access rules)
BackendReject(o) ==
  /\ o.phase = "sent"
  /\ ops' = (ops \ {o}) \cup {Advance(o, "failed")}
  /\ UNCHANGED <<authVars, locationVars, searchVars>>
  /\ UNCHANGED <<db, feed, clock, spots, userSpots, spotsLoading, spotsError,
                 opCount, imageCleanups, last>>

\* the new listing addSpot builds after createParkingSpot returned
NewSpot(o) ==
  Spread(o.data, [id |-> o.id, rating |-> Undefined,
                  createdAt |-> ClientNow, updatedAt |-> ClientNow])

\* A continuation that puts the new listing behind the others.
AddSpotResolveAppending(o) ==
  /\ o.kind = "create" /\ o.phase = "acked"
  /\ userSpots' = userSpots \o <<NewSpot(o)>>
  /\ clock' = clock + 1
  /\ ops' = ops \ {o}
  /\ last' = Done(o, "ok")
  /\ UNCHANGED <<authVars, locationVars, searchVars>>
  /\ UNCHANGED <<db, feed, spots, spotsLoading, spotsError, opCount,
                 imageCleanups>>

\* addSpot, after the await
AddSpotResolve(o) ==
  /\ o.kind = "create" /\ o.phase = "acked"
  /\ userSpots' = <<NewSpot(o)>> \o userSpots
  /\ clock' = clock + 1
  /\ ops' = ops \ {o}
  /\ last' = Done(o, "ok")
  /\ UNCHANGED <<authVars, locationVars, searchVars>>
  /\ UNCHANGED <<db, feed, spots, spotsLoading, spotsError, opCount,
                 imageCleanups>>

\* the catch block shared by addSpot, updateSpot and deleteSpot
MutationReject(o) ==
  /\ o.kind \in {"create", "update", "delete"} /\ o.phase = "failed"
  /\ spotsError' = "Failed to " \o o.kind \o " parking spot"
  /\ ops' = ops \ {o}
  /\ last' = Done(o, "error")
  /\ UNCHANGED <<authVars, locationVars, searchVars>>
  /\ UNCHANGED <<db, feed, clock, spots, userSpots, spotsLoading, opCount,
                 imageCleanups>>

\* updateSpot, up to its await of updateParkingSpot
UpdateSpotCall(spotId, data) ==
  /\ CanStart
  /\ ops' = ops \cup {Op(opCount + 1, "update", spotId, data)}
  /\ opCount' = opCount + 1
  /\ UNCHANGED <<authVars, locationVars, searchVars>>
  /\ UNCHANGED <<db, feed, clock, spots, userSpots, spotsLoading, spotsError,
                 imageCleanups, last>>

\* updateParkingSpot: updateDoc merges the stripped fields into the document;
\* it rejects when the document does not exist
BackendUpdate(o) ==
  /\ o.kind = "update" /\ o.phase = "sent"
  /\ IF o.id \in DOMAIN db
     THEN /\ db' = [db EXCEPT ![o.id] = Spread(@, UpdateDocData(o.data))]
          /\ feed' = Append(feed, db')
          /\ clock' = clock + 1
          /\ ops' = (ops \ {o}) \cup {Advance(o, "acked")}
     ELSE /\ ops' = (ops \ {o}) \cup {Advance(o, "failed")}
          /\ UNCHANGED <<db, feed, clock>>
  /\ UNCHANGED <<authVars, locationVars, searchVars>>
  /\ UNCHANGED <<spots, userSpots, spotsLoading, spotsError, opCount,
                 imageCleanups, last>>

\* A local merge that stamps no update timestamp.
updateLocalSpotsUnstamped(list, spotId, data) ==
  LET Patch(spot) == IF spot.id = spotId THEN Spread(spot, data) ELSE spot
  IN [i \in 1..Len(list) |-> Patch(list[i])]

\* updateLocalSpots of updateSpot
updateLocalSpots(list, spotId, data) ==
  LET Patch(spot) ==
        IF spot.id = spotId
        THEN Spread(Spread(spot, data), [updatedAt |-> ClientNow])
        ELSE spot
  IN [i \in 1..Len(list) |-> Patch(list[i])]

\* updateSpot, after the await
UpdateSpotResolve(o) ==
  /\ o.kind = "update" /\ o.phase = "acked"
  /\ spots' = updateLocalSpots(spots, o.id, o.data)
  /\ userSpots' = updateLocalSpots(userSpots, o.id, o.data)
  /\ clock' = clock + 1
  /\ ops' = ops \ {o}
  /\ last' = Done(o, "ok")
  /\ UNCHANGED <<authVars, locationVars, searchVars>>
  /\ UNCHANGED <<db, feed, spotsLoading, spotsError, opCount, imageCleanups>>

\* deleteSpot, up to its await of deleteParkingSpot
DeleteSpotCall(spotId) ==
  /\ CanStart
  /\ ops' = ops \cup {Op(opCount + 1, "delete", spotId, << >>)}
  /\ opCount' = opCount + 1
  /\ UNCHANGED <<authVars, locationVars, searchVars>>
  /\ UNCHANGED <<db, feed, clock, spots, userSpots, spotsLoading, spotsError,
                 imageCleanups, last>>

\* deleteParkingSpot: deleteDoc; deleting an absent document succeeds and
\* changes nothing
BackendDelete(o) ==
  /\ o.kind = "delete" /\ o.phase = "sent"
  /\ db' = [k \in (DOMAIN db) \ {o.id} |-> db[k]]
  /\ feed' = IF o.id \in DOMAIN db THEN Append(feed, db') ELSE feed
  /\ ops' = (ops \ {o}) \cup {Advance(o, "acked")}
  /\ UNCHANGED <<authVars, locationVars, searchVars>>
  /\ UNCHANGED <<clock, spots, userSpots, spotsLoading, spotsError, opCount,
                 imageCleanups, last>>

\* filterSpots of deleteSpot
filterSpots(list, spotId) ==
  LET Other(spot) == spot.id # spotId
  IN SelectSeq(list, Other)

\* A continuation that removes the listing from allAvailable only.
DeleteSpotResolveKeepingMine(o) ==
  /\ o.kind = "delete" /\ o.phase = "acked"
  /\ spots' = filterSpots(spots, o.id)
  /\ userSpots' = userSpots
  /\ ops' = ops \ {o}
  /\ last' = Done(o, "ok")
  /\ UNCHANGED <<authVars, locationVars, searchVars>>
  /\ UNCHANGED <<db, feed, clock, spotsLoading, spotsError, opCount,
                 imageCleanups>>

\* deleteSpot, after the await; nothing here or in deleteParkingSpot calls
\* deleteParkingSpotImages
DeleteSpotResolve(o) ==
  /\ o.kind = "delete" /\ o.phase = "acked"
  /\ spots' = filterSpots(spots, o.id)
  /\ userSpots' = filterSpots(userSpots, o.id)
  /\ ops' = ops \ {o}
  /\ last' = Done(o, "ok")
  /\ UNCHANGED <<authVars, locationVars, searchVars>>
  /\ UNCHANGED <<db, feed, clock, spotsLoading, spotsError, opCount,
                 imageCleanups>>

\* fetchUserSpots, up to its await (user effect, or handleRefresh of
\* MySpotsScreen)
FetchUserSpotsCall ==
  /\ user # NoUser
  /\ CanStart
  /\ ops' = ops \cup {Op(opCount + 1, "fetchMine", 0, [userId |-> user.uid])}
  /\ opCount' = opCount + 1
  /\ UNCHANGED <<authVars, locationVars, searchVars>>
  /\ UNCHANGED <<db, feed, clock, spots, userSpots, spotsLoading, spotsError,
                 imageCleanups, last>>

\* getUserParkingSpots: getDocs reads the collection
BackendQuery(o) ==
  /\ o.kind = "fetchMine" /\ o.phase = "sent"
  /\ ops' = (ops \ {o}) \cup
            {[o EXCEPT !.phase = "acked", !.res = UserSpotsOf(db, o.data.userId)]}
  /\ UNCHANGED <<authVars, locationVars, searchVars>>
  /\ UNCHANGED <<db, feed, clock, spots, userSpots, spotsLoading, spotsError,
                 opCount, imageCleanups, last>>

\* fetchUserSpots, after the await
FetchUserSpotsResolve(o) ==
  /\ o.kind = "fetchMine" /\ o.phase = "acked"
  /\ userSpots' = o.res
  /\ ops' = ops \ {o}
  /\ last' = Done(o, "ok")
  /\ UNCHANGED <<authVars, locationVars, searchVars>>
  /\ UNCHANGED <<db, feed, clock, spots, spotsLoading, spotsError, opCount,
                 imageCleanups>>

\* fetchUserSpots' catch block: the failure is logged only
FetchUserSpotsReject(o) ==
  /\ o.kind = "fetchMine" /\ o.phase = "failed"
  /\ ops' = ops \ {o}
  /\ last' = Done(o, "error")
  /\ UNCHANGED <<authVars, locationVars, searchVars>>
  /\ UNCHANGED <<db, feed, clock, spots, userSpots, spotsLoading, spotsError,
                 opCount, imageCleanups>>

\* `undefined` for a listing: what Array.prototype.find gives when nothing
\* matches
NoSpot == [id |-> Undefined]

\* A lookup that also searches mine.
getSpotByIdInEitherView(spotId) ==
  LET both == spots \o userSpots
      hits == {i \in 1..Len(both) : both[i].id = spotId}
  IN IF hits = {} THEN NoSpot
     ELSE both[CHOOSE i \in hits : \A j \in hits : i <= j]

\* getSpotById: spots.find((spot) => spot.id === spotId)
getSpotById(spotId) ==
  LET hits == {i \in 1..Len(spots) : spots[i].id = spotId}
  IN IF hits = {} THEN NoSpot
     ELSE spots[CHOOSE i \in hits : \A j \in hits : i <= j]

\* a screen looks a listing up (SpotDetailsScreen, AddSpotScreen when
\* editing): synchronous, it reads the provider's state only
GetSpotByIdCall(spotId) ==
  /\ opCount < MaxOps
  /\ opCount' = opCount + 1
  /\ last' = [kind |-> "getById", id |-> spotId, data |-> getSpotById(spotId),
              outcome |-> IF getSpotById(spotId) = NoSpot THEN "notFound"
                          ELSE "ok",
              n |-> opCount + 1]
  /\ UNCHANGED <<authVars, locationVars, searchVars>>
  /\ UNCHANGED <<db, feed, clock, spots, userSpots, spotsLoading, spotsError,
                 ops, imageCleanups>>

\* A listener that also rewrites the entries of mine found in the snapshot.
SubscriptionOnUpdateReconciling(updatedSpots) ==
  LET Fresh(spot) ==
        IF \E j \in 1..Len(updatedSpots) : updatedSpots[j].id = spot.id
        THEN updatedSpots[CHOOSE j \in 1..Len(updatedSpots) :
                            updatedSpots[j].id = spot.id]
        ELSE spot
  IN /\ spots' = updatedSpots
     /\ spotsLoading' = FALSE
     /\ userSpots' = [i \in 1..Len(userSpots) |-> Fresh(userSpots[i])]

\* the onUpdate callback the provider hands to subscribeToSpots
SubscriptionOnUpdate(updatedSpots) ==
  /\ spots' = updatedSpots
  /\ spotsLoading' = FALSE
  /\ UNCHANGED userSpots

\* the onSnapshot listener of subscribeToSpots runs for the oldest queued
\* snapshot
SnapshotDeliver ==
  /\ feed # << >>
  /\ SubscriptionOnUpdate(DeriveAvailable(Head(feed)))
  /\ feed' = Tail(feed)
  /\ last' = [kind |-> "snapshot", id |-> 0, data |-> Head(feed),
              outcome |-> "ok"]
  /\ UNCHANGED <<authVars, locationVars, searchVars>>
  /\ UNCHANGED <<db, clock, spotsError, ops, opCount, imageCleanups>>

\* ------------------------------------------------------ auth service
\* Auth operations (sign-up/in/out, profile update) started in one run.
MaxAuthOps == 3

Roles == {"user", "homeowner"}
\* a field a document or an auth account does not carry
Missing == "undefined"

\* the uid Firebase Auth gives the account of an email address
UidOf(email) == IF email = "a@b.com" THEN "u1" ELSE "u0"
\* email.split('@')[0]
LocalPart(email) == IF email = "a@b.com" THEN "a" ELSE email
\* the account a Google id token stands for
GoogleAccount == [email |-> "g@x.com", displayName |-> "Gil"]
GoogleUid == "g1"

Field(data, f) == IF f \in DOMAIN data THEN data[f] ELSE Missing
\* a || b on strings
OrElse(a, b) == IF a = Missing \/ a = "" THEN b ELSE a

\* getUserData: the document as a User, null when it does not exist
getUserData(docs, uid) ==
  IF uid \notin DOMAIN docs THEN NoUser
  ELSE [uid |-> uid,
        email |-> Field(docs[uid], "email"),
        name |-> Field(docs[uid], "name"),
        role |-> Field(docs[uid], "role")]

\* signUp: the user data written to Firestore and returned
SignUpUserData(uid, d) ==
  [uid |-> uid, email |-> d.email, name |-> d.name, role |-> d.role]

\* signIn: the default record built when no user document was found
SignInNewUserData(uid, email, account) ==
  [uid |-> uid,
   email |-> OrElse(account.email, email),
   name |-> OrElse(account.displayName, LocalPart(email)),
   role |-> "user"]

\* signInWithGoogle: the default record built when no document was found
GoogleNewUserData(uid, account) ==
  [uid |-> uid,
   email |-> OrElse(account.email, ""),
   name |-> OrElse(account.displayName, "User"),
   role |-> "user"]

\* setDoc(doc(db, USERS, uid), data): replaces the document
SetDoc(docs, uid, data) ==
  (uid :> Omit(data, {"uid"})) @@ docs

\* setDoc(..., {merge: true}) of updateUserData: creates or merges
SetDocMerge(docs, uid, data) ==
  (uid :> Spread(IF uid \in DOMAIN docs THEN docs[uid] ELSE << >>, data))
    @@ docs

\* ------------------------------------------------------------ AuthProvider
AuthIdle == [kind |-> "none", outcome |-> "none", uid |-> "none",
             synthesized |-> FALSE]

AuthOp(kind, uid, data, phase) ==
  [kind |-> kind, uid |-> uid, data |-> data, phase |-> phase,
   res |-> NoUser, synthesized |-> FALSE]

AuthDone(o, outcome) ==
  [kind |-> o.kind, outcome |-> outcome, uid |-> o.uid,
   synthesized |-> o.synthesized]

\* RootNavigator renders only the loading screen while isLoading is true,
\* the auth screens while there is no user and the main tabs otherwise.
AuthScreens == ~authLoading /\ user = NoUser /\ authCount < MaxAuthOps
MainScreens == ~authLoading /\ user # NoUser /\ authCount < MaxAuthOps

\* onAuthStateChanged runs the provider's callback; with a signed-in user it
\* stops at its await of getUserData
FireAuthCallback(uid) ==
  authCalls' = authCalls \cup
     {[uid |-> uid, phase |-> IF uid = "none" THEN "ready" ELSE "read",
       res |-> NoUser]}

StartAuthOp(o) ==
  /\ authOps' = authOps \cup {o}
  /\ authCount' = authCount + 1
  /\ authLoading' = TRUE
  /\ UNCHANGED <<gatewayVars, user, authCalls, authLast>>
  /\ UNCHANGED <<listingVars, locationVars, searchVars>>

Move(o, phase) == authOps' = (authOps \ {o}) \cup {[o EXCEPT !.phase = phase]}

\* AuthProvider.signUp, up to its await of the service's signUp
SignUpCall(email, name, role) ==
  /\ AuthScreens
  /\ StartAuthOp(AuthOp("signUp", UidOf(email),
                        [email |-> email, name |-> name, role |-> role],
                        "auth"))

\* AuthProvider.signIn, up to its await
SignInCall(email) ==
  /\ AuthScreens
  /\ StartAuthOp(AuthOp("signIn", UidOf(email), [email |-> email], "auth"))

\* AuthProvider.signInWithGoogle, up to its await
SignInWithGoogleCall ==
  /\ AuthScreens
  /\ StartAuthOp(AuthOp("google", GoogleUid, [token |-> "t"], "auth"))

\* AuthProvider.signOut, up to its await
SignOutCall ==
  /\ MainScreens
  /\ StartAuthOp(AuthOp("signOut", user.uid, [none |-> TRUE], "auth"))

\* createUserWithEmailAndPassword succeeds: the account exists and is the
\* current user
GatewayCreateUser(o) ==
  /\ o.kind = "signUp" /\ o.phase = "auth"
  /\ o.uid \notin DOMAIN accounts
  /\ accounts' = (o.uid :> [email |-> o.data.email, displayName |-> Missing,
                            registered |-> "none"]) @@ accounts
  /\ authUser' = o.uid
  /\ FireAuthCallback(o.uid)
  /\ Move(o, "profile")
  /\ UNCHANGED <<userDocs, user, authLoading, authCount, authLast>>
  /\ UNCHANGED <<listingVars, locationVars, searchVars>>

\* updateProfile(firebaseUser, {displayName: name}) succeeds; setDoc follows
GatewayUpdateDisplayName(o) ==
  /\ o.kind = "signUp" /\ o.phase = "profile"
  /\ accounts' = [accounts EXCEPT ![o.uid].displayName = o.data.name]
  /\ Move(o, "write")
  /\ UNCHANGED <<authUser, userDocs, user, authLoading, authCount, authCalls,
                 authLast>>
  /\ UNCHANGED <<listingVars, locationVars, searchVars>>

\* signUp's setDoc succeeds, or fails with a message naming Firestore: either
\* way the service returns the user data
GatewaySignUpWrite(o, stored) ==
  /\ o.kind = "signUp" /\ o.phase = "write"
  /\ userDocs' = IF stored
                 THEN SetDoc(userDocs, o.uid, SignUpUserData(o.uid, o.data))
                 ELSE userDocs
  /\ accounts' = [accounts EXCEPT ![o.uid].registered = o.data.role]
  /\ authOps' = (authOps \ {o}) \cup
       {[o EXCEPT !.phase = "ready", !.res = SignUpUserData(o.uid, o.data)]}
  /\ UNCHANGED <<authUser, user, authLoading, authCount, authCalls, authLast>>
  /\ UNCHANGED <<listingVars, locationVars, searchVars>>

\* signInWithEmailAndPassword / signInWithCredential succeeds; the service
\* goes on to its await of getUserData
GatewaySignIn(o) ==
  /\ o.kind \in {"signIn", "google"} /\ o.phase = "auth"
  /\ IF o.kind = "signIn"
     THEN o.uid \in DOMAIN accounts /\ UNCHANGED accounts
     ELSE accounts' = IF o.uid \in DOMAIN accounts THEN accounts
                      ELSE (o.uid :> [email |-> GoogleAccount.email,
                                      displayName |-> GoogleAccount.displayName,
                                      registered |-> "none"]) @@ accounts
  /\ authUser' = o.uid
  /\ FireAuthCallback(o.uid)
  /\ Move(o, "read")
  /\ UNCHANGED <<userDocs, user, authLoading, authCount, authLast>>
  /\ UNCHANGED <<listingVars, locationVars, searchVars>>

\* getUserData returns inside signIn / signInWithGoogle: the document, or
\* null when it is absent or the read failed; on null the default record is
\* built and its setDoc awaited
SignInRead(o, readFails) ==
  /\ o.kind \in {"signIn", "google"} /\ o.phase = "read"
  /\ LET userData == IF readFails THEN NoUser
                     ELSE getUserData(userDocs, o.uid)
     IN authOps' = (authOps \ {o}) \cup
          {IF userData # NoUser
           THEN [o EXCEPT !.phase = "ready", !.res = userData]
           ELSE [o EXCEPT !.phase = "write", !.synthesized = TRUE,
                   !.res = IF o.kind = "signIn"
                           THEN SignInNewUserData(o.uid, o.data.email,
                                                  accounts[o.uid])
                           ELSE GoogleNewUserData(o.uid, accounts[o.uid])]}
  /\ UNCHANGED <<gatewayVars, user, authLoading, authCount, authCalls,
                 authLast>>
  /\ UNCHANGED <<listingVars, locationVars, searchVars>>

\* A sign-in that returns the default record without storing it.
SignInSkipsWrite(docs, o) == docs

\* the documents after signIn's setDoc of the default record
SignInWrite(docs, o) == SetDoc(docs, o.uid, o.res)

\* the setDoc of the default record succeeds
GatewaySignInWrite(o) ==
  /\ o.kind \in {"signIn", "google"} /\ o.phase = "write"
  /\ userDocs' = SignInWrite(userDocs, o)
  /\ Move(o, "ready")
  /\ UNCHANGED <<accounts, authUser, user, authLoading, authCount, authCalls,
                 authLast>>
  /\ UNCHANGED <<listingVars, locationVars, searchVars>>

\* firebaseSignOut succeeds
GatewaySignOut(o) ==
  /\ o.kind = "signOut" /\ o.phase = "auth"
  /\ authUser' = "none"
  /\ FireAuthCallback("none")
  /\ Move(o, "ready")
  /\ UNCHANGED <<accounts, userDocs, user, authLoading, authCount, authLast>>
  /\ UNCHANGED <<listingVars, locationVars, searchVars>>

\* a gateway call of the operation rejects (bad credentials, email in use,
\* network, access rules)
GatewayAuthReject(o) ==
  /\ o.phase \in {"auth", "profile", "write"}
  /\ Move(o, "failed")
  /\ UNCHANGED <<gatewayVars, user, authLoading, authCount, authCalls,
                 authLast>>
  /\ UNCHANGED <<listingVars, locationVars, searchVars>>

\* AuthProvider.signIn / signInWithGoogle / signUp, after the await
SignInSetsUser(o) ==
  /\ o.kind \in {"signIn", "google", "signUp"} /\ o.phase = "ready"
  /\ user' = o.res
  /\ authOps' = authOps \ {o}
  /\ authLast' = AuthDone(o, "ok")
  /\ UNCHANGED <<gatewayVars, authLoading, authCount, authCalls>>

\* the same, seen from the auth provider alone
SignInResolve(o) ==
  /\ SignInSetsUser(o)
  /\ UNCHANGED <<listingVars, locationVars, searchVars>>

\* their catch block
SignInReject(o) ==
  /\ o.kind \in {"signIn", "google", "signUp"} /\ o.phase = "failed"
  /\ authLoading' = FALSE
  /\ authOps' = authOps \ {o}
  /\ authLast' = AuthDone(o, "error")
  /\ UNCHANGED <<gatewayVars, user, authCount, authCalls>>
  /\ UNCHANGED <<listingVars, locationVars, searchVars>>

\* AuthProvider.signOut, after the await: setUser(null) then the finally
SignOutClearsUser(o) ==
  /\ o.kind = "signOut" /\ o.phase = "ready"
  /\ user' = NoUser
  /\ authLoading' = FALSE
  /\ authOps' = authOps \ {o}
  /\ authLast' = AuthDone(o, "ok")
  /\ UNCHANGED <<gatewayVars, authCount, authCalls>>

\* the same, seen from the auth provider alone
SignOutResolve(o) ==
  /\ SignOutClearsUser(o)
  /\ UNCHANGED <<listingVars, locationVars, searchVars>>

\* AuthProvider.signOut when firebaseSignOut threw: only the finally runs
SignOutReject(o) ==
  /\ o.kind = "signOut" /\ o.phase = "failed"
  /\ authLoading' = FALSE
  /\ authOps' = authOps \ {o}
  /\ authLast' = AuthDone(o, "error")
  /\ UNCHANGED <<gatewayVars, user, authCount, authCalls>>
  /\ UNCHANGED <<listingVars, locationVars, searchVars>>

\* Partial<User> values handed to updateUserProfile (EditProfileScreen)
ProfilePatches == {[name |-> "Bob"]}

\* A profile update that sends the write whether or not there is a user.
UpdateUserProfileCallUnguarded(data) ==
  /\ ~authLoading /\ authCount < MaxAuthOps
  /\ authCount' = authCount + 1
  /\ authOps' = authOps \cup {AuthOp("update", user.uid, data, "write")}
  /\ UNCHANGED authLast
  /\ UNCHANGED <<gatewayVars, user, authLoading, authCalls>>
  /\ UNCHANGED <<listingVars, locationVars, searchVars>>

\* AuthProvider.updateUserProfile, up to its await of updateUserData; with
\* no user it throws at once
UpdateUserProfileCall(data) ==
  /\ ~authLoading /\ authCount < MaxAuthOps
  /\ authCount' = authCount + 1
  /\ IF user = NoUser
     THEN /\ authLast' = [kind |-> "update", outcome |-> "No user logged in",
                          uid |-> "none", synthesized |-> FALSE]
          /\ UNCHANGED authOps
     ELSE /\ authOps' = authOps \cup {AuthOp("update", user.uid, data, "write")}
          /\ UNCHANGED authLast
  /\ UNCHANGED <<gatewayVars, user, authLoading, authCalls>>
  /\ UNCHANGED <<listingVars, locationVars, searchVars>>

\* updateUserData: the merging setDoc succeeds
GatewayUpdateUserData(o) ==
  /\ o.kind = "update" /\ o.phase = "write"
  /\ userDocs' = SetDocMerge(userDocs, o.uid, o.data)
  /\ Move(o, "ready")
  /\ UNCHANGED <<accounts, authUser, user, authLoading, authCount, authCalls,
                 authLast>>
  /\ UNCHANGED <<listingVars, locationVars, searchVars>>

\* updateUserProfile, after the await
UpdateUserProfileResolve(o) ==
  /\ o.kind = "update" /\ o.phase = "ready"
  /\ user' = IF user # NoUser THEN Spread(user, o.data) ELSE NoUser
  /\ authOps' = authOps \ {o}
  /\ authLast' = AuthDone(o, "ok")
  /\ UNCHANGED <<gatewayVars, authLoading, authCount, authCalls>>
  /\ UNCHANGED <<listingVars, locationVars, searchVars>>

\* updateUserData threw: the error goes to the caller
UpdateUserProfileReject(o) ==
  /\ o.kind = "update" /\ o.phase = "failed"
  /\ authOps' = authOps \ {o}
  /\ authLast' = AuthDone(o, "error")
  /\ UNCHANGED <<gatewayVars, user, authLoading, authCount, authCalls>>
  /\ UNCHANGED <<listingVars, locationVars, searchVars>>

\* getUserData returns inside the auth-state callback
AuthCallbackRead(c, readFails) ==
  /\ c.phase = "read"
  /\ authCalls' = (authCalls \ {c}) \cup
       {[c EXCEPT !.phase = "ready",
                  !.res = IF readFails THEN NoUser
                          ELSE getUserData(userDocs, c.uid)]}
  /\ UNCHANGED <<gatewayVars, user, authLoading, authOps, authCount, authLast>>
  /\ UNCHANGED <<listingVars, locationVars, searchVars>>

\* the rest of the auth-state callback: setUser, setIsLoading(false)
AuthCallbackSetsUser(c) ==
  /\ c.phase = "ready"
  /\ user' = c.res
  /\ authLoading' = FALSE
  /\ authCalls' = authCalls \ {c}
  /\ UNCHANGED <<gatewayVars, authOps, authCount, authLast>>

\* the same, seen from the auth provider alone
AuthCallbackResolve(c) ==
  /\ AuthCallbackSetsUser(c)
  /\ UNCHANGED <<listingVars, locationVars, searchVars>>

\* the user effect of ParkingSpotsProvider, run by the render that follows a
\* setUser: with a user it calls fetchUserSpots(user.uid) up to its await,
\* with none it empties mine; setUser(null) over null renders nothing
UserEffect(newUser) ==
  /\ IF newUser # NoUser
     THEN /\ CanStart
          /\ ops' = ops \cup
               {Op(opCount + 1, "fetchMine", 0, [userId |-> newUser.uid])}
          /\ opCount' = opCount + 1
          /\ UNCHANGED userSpots
     ELSE /\ userSpots' = IF user # NoUser THEN << >> ELSE userSpots
          /\ UNCHANGED <<ops, opCount>>
  /\ UNCHANGED <<db, feed, clock, spots, spotsLoading, spotsError,
                 imageCleanups, last>>
  /\ UNCHANGED <<locationVars, searchVars>>

\* the user-setting continuations under a mounted listings provider
SignInResolveMounted(o) == SignInSetsUser(o) /\ UserEffect(o.res)
SignOutResolveMounted(o) == SignOutClearsUser(o) /\ UserEffect(NoUser)
AuthCallbackResolveMounted(c) == AuthCallbackSetsUser(c) /\ UserEffect(c.res)

\* -------------------------------------------------------- LocationProvider
\* getCurrentLocation calls started in one run.
MaxLocOps == 2

NoLocation == [known |-> FALSE]
NoError == "none"

\* Positions are points of the equator, their longitude counted in
\* kilometres of arc, so that the haversine distance of two of them is the
\* absolute difference.
DevicePositions == {0, 5}

Abs(x) == IF x < 0 THEN 0 - x ELSE x

\* calculateDistance of the parking-spot service on two equator points
calcDist(lon1, lon2) == Abs(lon2 - lon1)

\* LocationProvider.calculateDistance: null without a user location
calculateDistance(spotLocation) ==
  IF userLocation = NoLocation THEN Undefined
  ELSE calcDist(userLocation.longitude, spotLocation.longitude)

\* The repository holds two LocationProviders. "timed" is the one with
\* canAskAgain, the 10 s timer and the last-known fallback; "plain" is
\* context/LocationContext.tsx, which has none of the three.
Providers == {"timed", "plain"}

LocOp(n) == [n |-> n, phase |-> "perm", asked |-> FALSE, cached |-> FALSE,
             pos |-> Undefined, provider |-> "timed", blocked |-> FALSE,
             geocodeFailed |-> FALSE]
LocIdle == [outcome |-> "none", asked |-> FALSE, cached |-> FALSE,
            provider |-> "timed", blocked |-> FALSE, geocodeFailed |-> FALSE]
LocDone(o, outcome) ==
  [outcome |-> outcome, asked |-> o.asked, cached |-> o.cached,
   provider |-> o.provider, blocked |-> o.blocked,
   geocodeFailed |-> o.geocodeFailed]

LocMove(o, new) == locOps' = (locOps \ {o}) \cup {new}

\* a return of getCurrentLocation that sets an error (or none) and clears
\* the loading flag
LocReturn(o, outcome, message) ==
  /\ locError' = message
  /\ locLoading' = FALSE
  /\ locOps' = locOps \ {o}
  /\ locLast' = LocDone(o, outcome)
  /\ UNCHANGED <<userLocation, locCount>>
  /\ UNCHANGED <<listingVars, authVars, searchVars>>

LocStep(o, new) ==
  /\ LocMove(o, new)
  /\ UNCHANGED <<userLocation, locLoading, locError, locCount, locLast>>
  /\ UNCHANGED <<listingVars, authVars, searchVars>>

\* getCurrentLocation, up to its await of getForegroundPermissionsAsync
GetCurrentLocationCall ==
  /\ locCount < MaxLocOps
  /\ locLoading' = TRUE
  /\ locError' = NoError
  /\ locOps' = locOps \cup {LocOp(locCount + 1)}
  /\ locCount' = locCount + 1
  /\ UNCHANGED <<userLocation, locLast>>
  /\ UNCHANGED <<listingVars, authVars, searchVars>>

\* getCurrentLocation of context/LocationContext.tsx, up to its await of
\* getForegroundPermissionsAsync
PlainGetCurrentLocationCall ==
  /\ locCount < MaxLocOps
  /\ locLoading' = TRUE
  /\ locError' = NoError
  /\ locOps' = locOps \cup {[LocOp(locCount + 1) EXCEPT !.provider = "plain"]}
  /\ locCount' = locCount + 1
  /\ UNCHANGED <<userLocation, locLast>>
  /\ UNCHANGED <<listingVars, authVars, searchVars>>

\* the permission query answers "granted"
PermissionGranted(o) ==
  /\ o.phase = "perm"
  /\ LocStep(o, [o EXCEPT !.phase = "position"])

\* the permission query answers not granted, canAskAgain: the request follows
PermissionAskable(o) ==
  /\ o.phase = "perm"
  /\ LocStep(o, [o EXCEPT !.phase = "request", !.asked = TRUE])

\* the permission query answers not granted, cannot ask again
PermissionBlocked(o) ==
  /\ o.phase = "perm" /\ o.provider = "timed"
  /\ LocReturn(o, "blocked", "Location permission denied in settings")

\* context/LocationContext.tsx reads only status from the permission query:
\* not granted and cannot ask again, it requests the permission all the same
PlainPermissionBlocked(o) ==
  /\ o.phase = "perm" /\ o.provider = "plain"
  /\ LocStep(o, [o EXCEPT !.phase = "request", !.asked = TRUE,
                          !.blocked = TRUE])

\* requestPermission returns true (the OS can still ask)
RequestGranted(o) ==
  /\ o.phase = "request" /\ ~o.blocked
  /\ LocStep(o, [o EXCEPT !.phase = "position"])

\* requestPermission returns false (refused, or the request threw)
RequestRefused(o) ==
  /\ o.phase = "request"
  /\ LocReturn(o, "denied", "Location permission not granted")

\* getPositionWithTimeout resolves with the live position
PositionRead(o, p) ==
  /\ o.phase = "position"
  /\ LocStep(o, [o EXCEPT !.phase = "geocode", !.pos = p])

\* getPositionWithTimeout rejects (10 s timer, or the read failed): the last
\* known position is asked for
PositionFails(o) ==
  /\ o.phase = "position" /\ o.provider = "timed"
  /\ LocStep(o, [o EXCEPT !.phase = "lastKnown", !.cached = TRUE])

\* getCurrentPositionAsync rejects in context/LocationContext.tsx: the outer
\* catch sets the error
PlainPositionFails(o) ==
  /\ o.phase = "position" /\ o.provider = "plain"
  /\ LocReturn(o, "failed", "Unable to get your current location.")

\* getLastKnownPositionAsync returns a position
LastKnownRead(o, p) ==
  /\ o.phase = "lastKnown"
  /\ LocStep(o, [o EXCEPT !.phase = "geocode", !.pos = p])

\* getLastKnownPositionAsync returns null: "Unable to retrieve location."
\* is thrown and caught
LastKnownNone(o) ==
  /\ o.phase = "lastKnown"
  /\ LocReturn(o, "failed", "Unable to retrieve location.")

\* an awaited device call of the outer try throws
DeviceThrows(o, servicesDisabled) ==
  /\ o.phase \in {"perm", "lastKnown"}
  /\ LocReturn(o, "failed",
       IF servicesDisabled
       THEN "Location services are disabled. Please enable GPS in device settings."
       ELSE "Unable to get your current location.")

\* A geocoding failure that fails the request.
GeocodeFailureFailsRequest(o) ==
  /\ o.phase = "geocode"
  /\ locError' = "Unable to get your current location."
  /\ locLoading' = FALSE
  /\ locOps' = locOps \ {o}
  /\ locLast' = LocDone([o EXCEPT !.geocodeFailed = TRUE], "failed")
  /\ UNCHANGED <<userLocation, locCount>>
  /\ UNCHANGED <<listingVars, authVars, searchVars>>

\* reverseGeocodeAsync rejects: the failure is logged, the location keeps
\* its coordinates only (address stands for the geocoded fields address,
\* city, state and zipCode, which are set together); setUserLocation,
\* setIsLoading(false), return location
GeocodeFails(o) ==
  /\ o.phase = "geocode"
  /\ userLocation' = [known |-> TRUE, longitude |-> o.pos, address |-> << >>]
  /\ locLoading' = FALSE
  /\ locOps' = locOps \ {o}
  /\ locLast' = LocDone([o EXCEPT !.geocodeFailed = TRUE], "known")
  /\ UNCHANGED <<locError, locCount>>
  /\ UNCHANGED <<listingVars, authVars, searchVars>>

\* reverseGeocodeAsync settles (an address, none, or a failure that is only
\* logged); setUserLocation, setIsLoading(false), return location
GeocodeSettles(o, address) ==
  /\ o.phase = "geocode"
  /\ userLocation' = [known |-> TRUE, longitude |-> o.pos, address |-> address]
  /\ locLoading' = FALSE
  /\ locOps' = locOps \ {o}
  /\ locLast' = LocDone(o, "known")
  /\ UNCHANGED <<locError, locCount>>
  /\ UNCHANGED <<listingVars, authVars, searchVars>>

\* The LocationSession state of the specification, read off the provider.
LocationSession ==
  IF locLoading THEN "Resolving"
  ELSE IF locError \in {"Location permission denied in settings",
                        "Location permission not granted"} THEN "Denied"
  ELSE IF locError # NoError THEN "Failed"
  ELSE IF userLocation # NoLocation THEN "Known"
  ELSE "Unknown"

\* ------------------------------------------------------------ SearchScreen
\* Texts are sequences of characters.
Lower(c) == IF c = "A" THEN "a" ELSE IF c = "B" THEN "b" ELSE c
\* String.prototype.toLowerCase
toLowerCase(t) == [i \in 1..Len(t) |-> Lower(t[i])]
\* String.prototype.includes
includes(t, q) ==
  \E i \in 0..(Len(t) - Len(q)) : SubSeq(t, i + 1, i + Len(q)) = q
\* String.prototype.trim leaves something
TrimIsTruthy(t) == \E i \in 1..Len(t) : t[i] # " "

\* x || y on optional numbers: undefined, null and 0 are falsy
OrNumber(x, y) == IF x = Undefined \/ x = 0 THEN y ELSE x

\* Infinity in the distance comparator: larger than every distance, and
\* Infinity - Infinity (NaN) counts as 0 in a comparator
Infinity == 1000000000

\* stage 1 of filteredSpots: the search query
QueryStage(list) ==
  LET query == toLowerCase(searchQuery)
      Match(spot) ==
        \/ includes(toLowerCase(spot.title), query)
        \/ includes(toLowerCase(spot.description), query)
        \/ includes(toLowerCase(spot.location.address), query)
        \/ includes(toLowerCase(spot.location.city), query)
  IN IF TrimIsTruthy(searchQuery) THEN SelectSeq(list, Match) ELSE list

\* A price filter whose ceiling is exclusive.
PriceStageExclusive(list) ==
  LET Cheap(spot) == spot.pricePerHour < maxPrice
  IN SelectSeq(list, Cheap)

\* stage 2: the price filter
PriceStage(list) ==
  LET Cheap(spot) == spot.pricePerHour <= maxPrice
  IN SelectSeq(list, Cheap)

\* stage 3: the distance filter, applied when userLocation is set
DistanceStage(list) ==
  LET Near(spot) ==
        LET distance == calculateDistance(spot.location)
        IN distance # Undefined /\ distance <= maxDistance
  IN IF userLocation # NoLocation THEN SelectSeq(list, Near) ELSE list

\* A spot type filter that treats "all" as one more spot type.
TypeStageIgnoringAll(list) ==
  LET Selected(spot) == spot.spotType \in selectedSpotTypes
  IN SelectSeq(list, Selected)

\* stage 4: the spot type filter
TypeStage(list) ==
  LET Selected(spot) == spot.spotType \in selectedSpotTypes
  IN IF "all" \notin selectedSpotTypes THEN SelectSeq(list, Selected) ELSE list

\* A comparator that sorts ratings upwards.
SortCompareRatingAscending(a, b) ==
  CASE sortBy = "price" -> a.pricePerHour - b.pricePerHour
    [] sortBy = "rating" -> OrNumber(a.rating, 0) - OrNumber(b.rating, 0)
    [] OTHER ->
         IF userLocation = NoLocation THEN 0
         ELSE OrNumber(calculateDistance(a.location), Infinity)
              - OrNumber(calculateDistance(b.location), Infinity)

\* the comparator handed to results.sort
SortCompare(a, b) ==
  CASE sortBy = "price" -> a.pricePerHour - b.pricePerHour
    [] sortBy = "rating" -> OrNumber(b.rating, 0) - OrNumber(a.rating, 0)
    [] OTHER ->
         IF userLocation = NoLocation THEN 0
         ELSE OrNumber(calculateDistance(a.location), Infinity)
              - OrNumber(calculateDistance(b.location), Infinity)

\* stage 5: the sort
SortStage(list) ==
  ArraySort(list, [i \in 1..Len(list), j \in 1..Len(list) |->
                     SortCompare(list[i], list[j])])

\* filteredSpots of SearchScreen
filteredSpots ==
  SortStage(TypeStage(DistanceStage(PriceStage(QueryStage(spots)))))

PriceOptions == {10, 50}
DistanceOptions == {5, 25}
Queries == {<< >>, <<"A">>}
SpotTypeSelections == {{"all"}, {"garage"}}
SortKeys == {"distance", "price", "rating"}

SearchStep ==
  UNCHANGED <<listingVars, authVars, locationVars>>

SetSearchQuery(q) ==
  /\ searchQuery' = q
  /\ UNCHANGED <<maxPrice, maxDistance, selectedSpotTypes, sortBy>>
  /\ SearchStep

SetMaxPrice(v) ==
  /\ maxPrice' = v
  /\ UNCHANGED <<searchQuery, maxDistance, selectedSpotTypes, sortBy>>
  /\ SearchStep

SetMaxDistance(v) ==
  /\ maxDistance' = v
  /\ UNCHANGED <<searchQuery, maxPrice, selectedSpotTypes, sortBy>>
  /\ SearchStep

SetSelectedSpotTypes(sel) ==
  /\ selectedSpotTypes' = sel
  /\ UNCHANGED <<searchQuery, maxPrice, maxDistance, sortBy>>
  /\ SearchStep

SetSortBy(k) ==
  /\ sortBy' = k
  /\ UNCHANGED <<searchQuery, maxPrice, maxDistance, selectedSpotTypes>>
  /\ SearchStep

handleClearFilters ==
  /\ searchQuery' = << >>
  /\ maxPrice' = 50
  /\ maxDistance' = 25
  /\ selectedSpotTypes' = {"all"}
  /\ sortBy' = "distance"
  /\ SearchStep

\* ---------------------------------------------------------- specifications
\* The providers as constructed (useState initial values); the gateways hold
\* nothing yet, the listener's first snapshot and the first auth-state
\* callback (no current user) are still to run.
ListingConstructed ==
  /\ db = << >>
  /\ feed = <<db>>
  /\ clock = 1
  /\ spots = << >>
  /\ userSpots = << >>
  /\ spotsLoading = TRUE
  /\ spotsError = "none"
  /\ ops = {}
  /\ opCount = 0
  /\ imageCleanups = {}
  /\ last = Idle

AuthConstructed ==
  /\ accounts = << >>
  /\ authUser = "none"
  /\ userDocs = << >>
  /\ user = NoUser
  /\ authLoading = TRUE
  /\ authOps = {}
  /\ authCount = 0
  /\ authCalls = {[uid |-> "none", phase |-> "ready", res |-> NoUser]}
  /\ authLast = AuthIdle

LocationConstructed ==
  /\ userLocation = NoLocation
  /\ locLoading = FALSE
  /\ locError = NoError
  /\ locOps = {}
  /\ locCount = 0
  /\ locLast = LocIdle

SearchConstructed ==
  /\ searchQuery = << >>
  /\ maxPrice = 50
  /\ maxDistance = 25
  /\ selectedSpotTypes = {"all"}
  /\ sortBy = "distance"

\* A homeowner who signed up and is signed in.
Owner == [uid |-> "u1", email |-> "a@b.com", name |-> "Ann",
          role |-> "homeowner"]

AuthSignedIn ==
  /\ accounts = ("u1" :> [email |-> "a@b.com", displayName |-> "Ann",
                          registered |-> "homeowner"])
  /\ authUser = "u1"
  /\ userDocs = ("u1" :> Omit(Owner, {"uid"}))
  /\ user = Owner
  /\ authLoading = FALSE
  /\ authOps = {}
  /\ authCount = 0
  /\ authCalls = {}
  /\ authLast = AuthIdle

\* A listing of another owner already in the collection.
SeedDoc ==
  [ownerId |-> "u2", title |-> <<"A">>, description |-> <<"b">>,
   location |-> [longitude |-> 0, address |-> << >>, city |-> <<"b">>],
   pricePerHour |-> 10, isAvailable |-> TRUE, spotType |-> "garage",
   createdAt |-> 0, updatedAt |-> 0]

\* The listings provider right after mount under a signed-in user whose first
\* fetch has resolved: the first snapshot of the collection is still queued.
ListingMounted ==
  /\ db = (0 :> SeedDoc)
  /\ feed = <<db>>
  /\ clock = 1
  /\ spots = << >>
  /\ userSpots = << >>
  /\ spotsLoading = TRUE
  /\ spotsError = "none"
  /\ ops = {}
  /\ opCount = 0
  /\ imageCleanups = {}
  /\ last = Idle

InitListing ==
  ListingMounted /\ AuthSignedIn /\ LocationConstructed /\ SearchConstructed

NextListing ==
  \/ \E d \in SpotInputs : AddSpotCall(d)
  \/ \E k \in KnownIds, d \in Patches : UpdateSpotCall(k, d)
  \/ \E k \in KnownIds : DeleteSpotCall(k)
  \/ FetchUserSpotsCall
  \/ \E k \in KnownIds \cup {OtherId} : GetSpotByIdCall(k)
  \/ \E o \in ops : BackendCreate(o)
  \/ \E o \in ops : BackendUpdate(o)
  \/ \E o \in ops : BackendDelete(o)
  \/ \E o \in ops : BackendQuery(o)
  \/ \E o \in ops : BackendReject(o)
  \/ \E o \in ops : AddSpotResolve(o)
  \/ \E o \in ops : UpdateSpotResolve(o)
  \/ \E o \in ops : DeleteSpotResolve(o)
  \/ \E o \in ops : MutationReject(o)
  \/ \E o \in ops : FetchUserSpotsResolve(o)
  \/ \E o \in ops : FetchUserSpotsReject(o)
  \/ SnapshotDeliver

\* the listings provider and its gateway, under a fixed signed-in user
SpecListing == InitListing /\ [][NextListing]_vars

InitAuth ==
  ListingConstructed /\ AuthConstructed /\ LocationConstructed
    /\ SearchConstructed

NextAuth ==
  \/ \E r \in Roles : SignUpCall("a@b.com", "Ann", r)
  \/ SignInCall("a@b.com")
  \/ SignInWithGoogleCall
  \/ SignOutCall
  \/ \E d \in ProfilePatches : UpdateUserProfileCall(d)
  \/ \E o \in authOps : GatewayCreateUser(o)
  \/ \E o \in authOps : GatewayUpdateDisplayName(o)
  \/ \E o \in authOps, stored \in BOOLEAN : GatewaySignUpWrite(o, stored)
  \/ \E o \in authOps : GatewaySignIn(o)
  \/ \E o \in authOps, readFails \in BOOLEAN : SignInRead(o, readFails)
  \/ \E o \in authOps : GatewaySignInWrite(o)
  \/ \E o \in authOps : GatewaySignOut(o)
  \/ \E o \in authOps : GatewayUpdateUserData(o)
  \/ \E o \in authOps : GatewayAuthReject(o)
  \/ \E o \in authOps : SignInResolve(o)
  \/ \E o \in authOps : SignInReject(o)
  \/ \E o \in authOps : SignOutResolve(o)
  \/ \E o \in authOps : SignOutReject(o)
  \/ \E o \in authOps : UpdateUserProfileResolve(o)
  \/ \E o \in authOps : UpdateUserProfileReject(o)
  \/ \E c \in authCalls, readFails \in BOOLEAN : AuthCallbackRead(c, readFails)
  \/ \E c \in authCalls : AuthCallbackResolve(c)

\* the auth provider and the identity gateway
SpecAuth == InitAuth /\ [][NextAuth]_vars

InitLocation ==
  ListingConstructed /\ AuthConstructed /\ LocationConstructed
    /\ SearchConstructed

\* the answers the device gives whenever it is asked, the live position read
\* aside; the 10 s timer of the timed provider is one of them
DeviceAnswers ==
  \/ \E o \in locOps : PermissionGranted(o)
  \/ \E o \in locOps : PermissionAskable(o)
  \/ \E o \in locOps : PermissionBlocked(o)
  \/ \E o \in locOps : PlainPermissionBlocked(o)
  \/ \E o \in locOps : RequestGranted(o)
  \/ \E o \in locOps : RequestRefused(o)
  \/ \E o \in locOps : PositionFails(o)
  \/ \E o \in locOps, p \in DevicePositions : LastKnownRead(o, p)
  \/ \E o \in locOps : LastKnownNone(o)
  \/ \E o \in locOps, a \in {<< >>, <<"A">>} : GeocodeSettles(o, a)
  \/ \E o \in locOps : GeocodeFails(o)

NextLocation ==
  \/ (locOps = {} /\ GetCurrentLocationCall)
  \/ (locOps = {} /\ PlainGetCurrentLocationCall)
  \/ DeviceAnswers
  \/ \E o \in locOps, p \in DevicePositions : PositionRead(o, p)
  \/ \E o \in locOps : PlainPositionFails(o)
  \/ \E o \in locOps, disabled \in BOOLEAN : DeviceThrows(o, disabled)

\* the two location providers, with location requests made one after the
\* other
SpecLocation == InitLocation /\ [][NextLocation]_vars

\* the same, where every device call other than the live position read
\* answers and the timer fires
SpecLocationFair == SpecLocation /\ WF_vars(DeviceAnswers)

\* requests may start while others are in flight: the map screen asks on
\* mount, its centre button and the add-spot form ask when pressed
NextLocationOverlap ==
  \/ GetCurrentLocationCall
  \/ PlainGetCurrentLocationCall
  \/ DeviceAnswers
  \/ \E o \in locOps, p \in DevicePositions : PositionRead(o, p)
  \/ \E o \in locOps : PlainPositionFails(o)
  \/ \E o \in locOps, disabled \in BOOLEAN : DeviceThrows(o, disabled)

\* the two location providers, with overlapping location requests
SpecLocationOverlap == InitLocation /\ [][NextLocationOverlap]_vars

\* Listings the search screen may be showing.
MaxListLen == 2

PoolDoc(lon, price, rating, type, title) ==
  [ownerId |-> "u2", title |-> title, description |-> <<"b">>,
   location |-> [longitude |-> lon, address |-> << >>, city |-> <<"b">>],
   pricePerHour |-> price, isAvailable |-> TRUE, spotType |-> type,
   rating |-> rating]

Pool ==
  {PoolDoc(0, 10, Undefined, "garage", <<"A">>),
   PoolDoc(3, 10, 4, "driveway", <<"b">>),
   PoolDoc(30, 11, 2, "garage", <<"A">>)}

\* collections of up to MaxListLen pool listings, in every creation order
SearchCollections ==
  LET Orders == UNION {[1..n -> Pool] : n \in 0..MaxListLen}
      Distinct(f) == \A i, j \in DOMAIN f : i # j => f[i] # f[j]
  IN {[i \in DOMAIN f |->
         Spread(f[i], [createdAt |-> 2 * i, updatedAt |-> 2 * i])] :
        f \in {g \in Orders : Distinct(g)}}

\* The search screen over a delivered collection.
InitSearch ==
  /\ db \in SearchCollections
  /\ feed = << >>
  /\ clock = MaxListLen + 1
  /\ spots = DeriveAvailable(db)
  /\ userSpots = << >>
  /\ spotsLoading = FALSE
  /\ spotsError = "none"
  /\ ops = {}
  /\ opCount = 0
  /\ imageCleanups = {}
  /\ last = Idle
  /\ AuthSignedIn /\ LocationConstructed /\ SearchConstructed

NextSearch ==
  \/ (locOps = {} /\ GetCurrentLocationCall)
  \/ \E o \in locOps : PermissionGranted(o)
  \/ \E o \in locOps : PermissionAskable(o)
  \/ \E o \in locOps : PermissionBlocked(o)
  \/ \E o \in locOps : RequestGranted(o)
  \/ \E o \in locOps : RequestRefused(o)
  \/ \E o \in locOps, p \in DevicePositions : PositionRead(o, p)
  \/ \E o \in locOps : PositionFails(o)
  \/ \E o \in locOps, p \in DevicePositions : LastKnownRead(o, p)
  \/ \E o \in locOps : LastKnownNone(o)
  \/ \E o \in locOps, disabled \in BOOLEAN : DeviceThrows(o, disabled)
  \/ \E o \in locOps, a \in {<< >>, <<"A">>} : GeocodeSettles(o, a)
  \/ \E q \in Queries : SetSearchQuery(q)
  \/ \E v \in PriceOptions : SetMaxPrice(v)
  \/ \E v \in DistanceOptions : SetMaxDistance(v)
  \/ \E sel \in SpotTypeSelections : SetSelectedSpotTypes(sel)
  \/ \E k \in SortKeys : SetSortBy(k)
  \/ handleClearFilters

\* the search screen over the location provider, with location requests made
\* one after the other
SpecSearch == InitSearch /\ [][NextSearch]_vars

\* Listings for the filter/sort pipeline taken alone: pairs that tie on
\* price, on rating (a rating of 0 next to a missing one), and on distance
\* from position 5.
ApplyPool ==
  {PoolDoc(0, 10, Undefined, "garage", <<"A">>),
   PoolDoc(10, 10, 4, "driveway", <<"b">>),
   PoolDoc(30, 11, 2, "garage", <<"A">>),
   PoolDoc(10, 11, 4, "garage", <<"b">>),
   PoolDoc(30, 10, 0, "driveway", <<"A">>)}

\* collections of up to MaxListLen of them, in every creation order
ApplyCollections ==
  LET Orders == UNION {[1..n -> ApplyPool] : n \in 0..MaxListLen}
      Distinct(f) == \A i, j \in DOMAIN f : i # j => f[i] # f[j]
  IN {[i \in DOMAIN f |->
         Spread(f[i], [createdAt |-> 2 * i, updatedAt |-> 2 * i])] :
        f \in {g \in Orders : Distinct(g)}}

\* the user location the screen reads: none yet, or the one a finished
\* request has set
Origins ==
  {NoLocation} \cup
  {[known |-> TRUE, longitude |-> p, address |-> << >>] : p \in DevicePositions}

\* The search screen over a delivered collection, no location request in
\* flight.
InitApply ==
  /\ db \in ApplyCollections
  /\ feed = << >>
  /\ clock = MaxListLen + 1
  /\ spots = DeriveAvailable(db)
  /\ userSpots = << >>
  /\ spotsLoading = FALSE
  /\ spotsError = "none"
  /\ ops = {}
  /\ opCount = 0
  /\ imageCleanups = {}
  /\ last = Idle
  /\ AuthSignedIn /\ SearchConstructed
  /\ userLocation \in Origins
  /\ locLoading = FALSE
  /\ locError = NoError
  /\ locOps = {}
  /\ locCount = (IF userLocation = NoLocation THEN 0 ELSE 1)
  /\ locLast = (IF userLocation = NoLocation THEN LocIdle
                ELSE LocDone(LocOp(1), "known"))

NextApply ==
  \/ \E q \in Queries : SetSearchQuery(q)
  \/ \E v \in PriceOptions : SetMaxPrice(v)
  \/ \E v \in DistanceOptions : SetMaxDistance(v)
  \/ \E sel \in SpotTypeSelections : SetSelectedSpotTypes(sel)
  \/ \E k \in SortKeys : SetSortBy(k)
  \/ handleClearFilters

\* the filter/sort pipeline of the search screen over its inputs
SpecApply == InitApply /\ [][NextApply]_vars

\* A listing of the signed-in owner, stored before the run.
OwnerDoc ==
  [ownerId |-> "u1", title |-> <<"A">>, description |-> <<"b">>,
   location |-> [longitude |-> 0, address |-> << >>, city |-> <<"b">>],
   pricePerHour |-> 10, isAvailable |-> TRUE, spotType |-> "driveway",
   createdAt |-> 2, updatedAt |-> 2]

\* The listings provider under the signed-in owner: the collection holds a
\* listing of the owner and one of somebody else, the first snapshot has
\* been delivered and the first fetch of the owner's listings has resolved.
InitOwner ==
  /\ db = (0 :> SeedDoc) @@ (1 :> OwnerDoc)
  /\ feed = << >>
  /\ clock = 2
  /\ spots = DeriveAvailable(db)
  /\ userSpots = UserSpotsOf(db, "u1")
  /\ spotsLoading = FALSE
  /\ spotsError = "none"
  /\ ops = {}
  /\ opCount = 0
  /\ imageCleanups = {}
  /\ last = Idle
  /\ AuthSignedIn /\ LocationConstructed /\ SearchConstructed

NextOwner ==
  \/ (~authLoading /\ FetchUserSpotsCall)
  \/ \E o \in ops : BackendQuery(o)
  \/ \E o \in ops : BackendReject(o)
  \/ \E o \in ops : FetchUserSpotsResolve(o)
  \/ \E o \in ops : FetchUserSpotsReject(o)
  \/ SignOutCall
  \/ SignInWithGoogleCall
  \/ \E o \in authOps : GatewaySignOut(o)
  \/ \E o \in authOps : GatewaySignIn(o)
  \/ \E o \in authOps, readFails \in BOOLEAN : SignInRead(o, readFails)
  \/ \E o \in authOps : GatewaySignInWrite(o)
  \/ \E o \in authOps : GatewayAuthReject(o)
  \/ \E o \in authOps : SignInReject(o)
  \/ \E o \in authOps : SignOutReject(o)
  \/ \E c \in authCalls, readFails \in BOOLEAN : AuthCallbackRead(c, readFails)
  \/ \E o \in authOps : SignInResolveMounted(o)
  \/ \E o \in authOps : SignOutResolveMounted(o)
  \/ \E c \in authCalls : AuthCallbackResolveMounted(c)

\* the listings provider's view of the owner's listings under the auth
\* provider: sign-out, sign-in as another identity, the fetches of the user
\* effect and those of handleRefresh, which the screen offers while the main
\* tabs are shown
SpecOwner == InitOwner /\ [][NextOwner]_vars

\* ------------------------------------------------------------ properties
\* steps of the listings provider, recognised from outside the actions
UpdateResolves(o) ==
  o.kind = "update" /\ o.phase = "acked" /\ ops' = ops \ {o}
UpdateCommits(o) ==
  o.kind = "update" /\ o.phase = "sent" /\ Advance(o, "acked") \in ops'
Delivers == feed # << >> /\ feed' = Tail(feed) /\ last'.kind = "snapshot"

SameIdentity(before, after) ==
  /\ Len(after) = Len(before)
  /\ \A i \in 1..Len(before) :
       /\ after[i].id = before[i].id
       /\ after[i].createdAt = before[i].createdAt

TouchesIdentity(data) == {"id", "createdAt"} \cap DOMAIN data # {}

\* C1: an update whose patch carries id and/or createdAt next to other
\* fields leaves the listing's id and createdAt as they were, in the backend
\* document and in both local views.
C1_UpdateKeepsIdAndCreatedAt ==
  [][\A o \in ops :
       /\ (UpdateCommits(o) /\ TouchesIdentity(o.data)) =>
            /\ DOMAIN db' = DOMAIN db
            /\ db'[o.id].createdAt = db[o.id].createdAt
            /\ "id" \notin DOMAIN db'[o.id]
       /\ (UpdateResolves(o) /\ TouchesIdentity(o.data)) =>
            /\ SameIdentity(spots, spots')
            /\ SameIdentity(userSpots, userSpots')]_vars

NoMutationInFlight == \A o \in ops : o.kind = "fetchMine"

\* C3: with no create/update/delete in flight and every snapshot delivered,
\* allAvailable is the view derived from the backend collection.
C3_QuiescentViewIsBackendView ==
  (NoMutationInFlight /\ feed = << >>) => spots = DeriveAvailable(db)

\* C4: every listing held in allAvailable is available.
C4_AllAvailableOnlyAvailable ==
  \A i \in 1..Len(spots) : spots[i].isAvailable

\* C7: a delete that succeeded has asked for the cleanup of the listing's
\* stored images.
C7_DeleteRequestsImageCleanup ==
  (last.kind = "delete" /\ last.outcome = "ok") => last.id \in imageCleanups

LooksUp ==
  last'.kind = "getById" /\ opCount' = opCount + 1 /\ last'.n = opCount'

\* C11: getById(id) finds a listing exactly when allAvailable holds one with
\* that id and hands back that entry; it starts no backend operation and
\* changes no view; an id held by mine only is not found.
C11_GetByIdReadsAllAvailableOnly ==
  [][LooksUp =>
       /\ (last'.outcome = "ok") <=> (last'.id \in Range(IdsOf(spots)))
       /\ last'.outcome = "ok" =>
            (last'.data \in Range(spots) /\ last'.data.id = last'.id)
       /\ last'.outcome # "ok" => last'.data = NoSpot
       /\ (last'.id \in Range(IdsOf(userSpots))
             /\ last'.id \notin Range(IdsOf(spots))) =>
            last'.outcome = "notFound"
       /\ UNCHANGED <<db, feed, ops, spots, userSpots>>]_vars

\* create has returned id k, the snapshot holding k is still queued, mine
\* holds k, and the lookup of k found nothing
C11_Witness ==
  /\ last.kind = "getById" /\ last.outcome = "notFound"
  /\ last.id \in Range(IdsOf(userSpots))
  /\ last.id \in DOMAIN db
  /\ feed # << >> /\ \A i \in 1..Len(feed) : last.id \in DOMAIN feed[i]

\* the ids of the documents of a snapshot that convert to available listings
AvailableIn(snap) ==
  {k \in DOMAIN snap : convertDocToSpot(k, snap[k]).isAvailable}

\* C12: the view a delivery hands to onUpdate holds exactly the available
\* listings of the delivered snapshot, each once, newest creation first.
C12_DeliveredViewIsAvailableNewestFirst ==
  [][Delivers =>
       /\ Len(spots') = Cardinality(AvailableIn(Head(feed)))
       /\ Range(IdsOf(spots')) = AvailableIn(Head(feed))
       /\ \A i \in 1..Len(spots') :
            spots'[i] = convertDocToSpot(spots'[i].id, Head(feed)[spots'[i].id])
       /\ \A i, j \in 1..Len(spots') :
            i < j => spots'[i].createdAt >= spots'[j].createdAt]_vars

\* a delivered snapshot held an unavailable listing and two available ones
\* whose document order is oldest first
C12_Witness ==
  /\ last.kind = "snapshot"
  /\ AvailableIn(last.data) # DOMAIN last.data
  /\ Len(spots) >= 2
  /\ spots[1].createdAt > spots[2].createdAt
  /\ spots[1].id > spots[2].id
  /\ Range(IdsOf(spots)) = AvailableIn(last.data)

\* view `after` is view `before` with the patch merged into the entries whose
\* id is spotId and a fresh update timestamp on them, nothing else changed
MergedInPlace(before, after, spotId, data) ==
  /\ Len(after) = Len(before)
  /\ \A i \in 1..Len(before) :
       IF before[i].id = spotId
       THEN /\ DOMAIN after[i] = DOMAIN before[i] \cup DOMAIN data
            /\ \A f \in DOMAIN data \ {"updatedAt"} : after[i][f] = data[f]
            /\ \A f \in DOMAIN before[i] \ (DOMAIN data \cup {"updatedAt"}) :
                 after[i][f] = before[i][f]
            /\ after[i].updatedAt = ClientNow
            /\ after[i].updatedAt > before[i].updatedAt
       ELSE after[i] = before[i]

MutationFails(o, kind) ==
  o.kind = kind /\ o.phase = "failed" /\ ops' = ops \ {o}

\* C19: a successful update merges the patch into the entry of that id in
\* both views, stamps it, and leaves every other entry and the order alone;
\* a failed one leaves both views alone and reports the failure.
C19_UpdateMergesInPlace ==
  [][\A o \in ops :
       /\ UpdateResolves(o) =>
            /\ MergedInPlace(spots, spots', o.id, o.data)
            /\ MergedInPlace(userSpots, userSpots', o.id, o.data)
            /\ last' = Done(o, "ok")
       /\ MutationFails(o, "update") =>
            /\ spots' = spots /\ userSpots' = userSpots
            /\ last' = Done(o, "error")
            /\ spotsError' # "none"]_vars

\* an update of a listing held by both views, next to another listing, has
\* succeeded
C19_Witness ==
  /\ last.kind = "update" /\ last.outcome = "ok"
  /\ "title" \in DOMAIN last.data
  /\ \E i \in 1..Len(spots) :
       spots[i].id = last.id /\ spots[i].title = last.data.title
         /\ IsClientTime(spots[i].updatedAt)
  /\ \E i \in 1..Len(userSpots) :
       userSpots[i].id = last.id /\ userSpots[i].title = last.data.title
  /\ \E i \in 1..Len(spots) : spots[i].id # last.id

AddResolves(o) ==
  o.kind = "create" /\ o.phase = "acked" /\ ops' = ops \ {o}

\* C20: when the backend write of create succeeded with id k, mine becomes
\* the new listing k in front of the previous mine, allAvailable is left
\* alone and k is returned; when it failed, both views are left alone and
\* the failure is reported.
C20_CreatePrependsToMine ==
  [][\A o \in ops :
       /\ AddResolves(o) =>
            /\ Len(userSpots') = Len(userSpots) + 1
            /\ Tail(userSpots') = userSpots
            /\ Head(userSpots').id = o.id
            /\ \A f \in DOMAIN o.data : Head(userSpots')[f] = o.data[f]
            /\ IsClientTime(Head(userSpots').createdAt)
            /\ Head(userSpots').updatedAt = Head(userSpots').createdAt
            /\ spots' = spots
            /\ last' = Done(o, "ok") /\ last'.id = o.id
       /\ MutationFails(o, "create") =>
            /\ spots' = spots /\ userSpots' = userSpots
            /\ last' = Done(o, "error")
            /\ spotsError' # "none"]_vars

\* a second create has returned: its listing stands in front of the first
\* one in mine
C20_Witness ==
  /\ last.kind = "create" /\ last.outcome = "ok"
  /\ Len(userSpots) = 2
  /\ userSpots[1].id = last.id
  /\ userSpots[2].id # last.id
  /\ last.id \in DOMAIN db

DeleteResolves(o) ==
  o.kind = "delete" /\ o.phase = "acked" /\ ops' = ops \ {o}

\* view `after` is view `before` without the entries whose id is spotId, the
\* others in their order
RemovedInPlace(before, after, spotId) ==
  LET keep == {i \in 1..Len(before) : before[i].id # spotId}
      Nth(k) == CHOOSE i \in keep : Cardinality({j \in keep : j < i}) = k - 1
  IN /\ Len(after) = Cardinality(keep)
     /\ \A k \in 1..Len(after) : after[k] = before[Nth(k)]

\* C21: when delete(id) succeeds neither view holds a listing with that id
\* and the other entries keep their order; when the backend delete fails,
\* both views are left alone and the failure is reported.
C21_DeleteRemovesFromBothViews ==
  [][\A o \in ops :
       /\ DeleteResolves(o) =>
            /\ o.id \notin Range(IdsOf(spots'))
            /\ o.id \notin Range(IdsOf(userSpots'))
            /\ RemovedInPlace(spots, spots', o.id)
            /\ RemovedInPlace(userSpots, userSpots', o.id)
            /\ last' = Done(o, "ok")
       /\ MutationFails(o, "delete") =>
            /\ spots' = spots /\ userSpots' = userSpots
            /\ last' = Done(o, "error")
            /\ spotsError' # "none"]_vars

\* the delete of a listing this run created, which mine held, has succeeded:
\* the listing is gone from the backend and from both views, the other
\* listing still shown
C21_Witness ==
  /\ last.kind = "delete" /\ last.outcome = "ok"
  /\ last.id \in 1..MaxOps /\ last.id \notin DOMAIN db
  /\ ops = {} /\ opCount = MaxOps /\ feed = << >>
  /\ last.id \notin Range(IdsOf(spots)) \cup Range(IdsOf(userSpots))
  /\ Len(spots) = 1

\* steps of the auth provider, recognised from outside the actions
Settles(o) == o.phase \in {"ready", "failed"} /\ o \notin authOps'
IsSignIn(o) == o.kind \in {"signIn", "google"}
CreatesRecord(o) ==
  /\ IsSignIn(o) /\ o.phase = "write"
  /\ [o EXCEPT !.phase = "ready"] \in authOps'
  /\ o.uid \notin DOMAIN userDocs

\* C2: signOut ends with the identity cleared and the loading flag off,
\* whether the remote sign-out succeeded or failed.
C2_SignOutAlwaysClears ==
  [][\A o \in authOps :
       (o.kind = "signOut" /\ Settles(o)) =>
          (user' = NoUser /\ ~authLoading')]_vars

\* C5: when signIn / signInWithExternalToken returns successfully the store
\* holds that identity and its backend record exists; a record that was
\* absent is created with role "user".
C5_SignInYieldsIdentityAndRecord ==
  [][\A o \in authOps :
       /\ (IsSignIn(o) /\ o.phase = "ready" /\ Settles(o)) =>
            /\ user' # NoUser
            /\ user'.uid = o.uid
            /\ o.uid \in DOMAIN userDocs'
       /\ CreatesRecord(o) =>
            /\ o.uid \in DOMAIN userDocs'
            /\ Field(userDocs'[o.uid], "role") = "user"]_vars

\* a sign-in that found no record has returned: the identity is held and the
\* record it created has role "user"
C5_Witness ==
  /\ authLast.kind \in {"signIn", "google"}
  /\ authLast.outcome = "ok"
  /\ authLast.synthesized
  /\ user # NoUser /\ user.uid = authLast.uid
  /\ user.uid \in DOMAIN userDocs
  /\ userDocs[user.uid].role = "user"

\* C13: when signUp returns successfully the store holds an identity with
\* exactly the given email, name and role, and the backend record of that
\* identity exists.
C13_SignUpYieldsIdentityAndRecord ==
  [][\A o \in authOps :
       (o.kind = "signUp" /\ o.phase = "ready" /\ Settles(o)) =>
          /\ user' = [uid |-> o.uid, email |-> o.data.email,
                      name |-> o.data.name, role |-> o.data.role]
          /\ o.uid \in DOMAIN userDocs']_vars

\* C6: the role in the backend record and in the store is the role chosen
\* at registration.
C6_RoleFixedAtRegistration ==
  \A uid \in DOMAIN accounts :
    accounts[uid].registered # "none" =>
      /\ (uid \in DOMAIN userDocs /\ "role" \in DOMAIN userDocs[uid]) =>
           userDocs[uid].role = accounts[uid].registered
      /\ (user # NoUser /\ user.uid = uid) =>
           user.role = accounts[uid].registered

\* steps of a location request, recognised from outside the actions
LiveReadSucceeds(o) ==
  /\ o.phase = "position"
  /\ \E p \in DevicePositions : [o EXCEPT !.phase = "geocode", !.pos = p] \in locOps'
LiveReadFails(o) ==
  o.phase = "position" /\ o \notin locOps' /\ ~LiveReadSucceeds(o)
LocationSettles(o) == o.phase = "geocode" /\ o \notin locOps'

\* C14: a live position read that times out or fails is followed by one
\* question for the last known position, which ends the request in Known at
\* that position or in Failed; a live read that succeeds never asks for it.
C14_LiveReadFailureFallsBackOnce ==
  [][\A o \in locOps :
       /\ LiveReadFails(o) =>
            [o EXCEPT !.phase = "lastKnown", !.cached = TRUE] \in locOps'
       /\ (o.phase = "lastKnown" /\ o \notin locOps') =>
            \/ \E p \in DevicePositions :
                 [o EXCEPT !.phase = "geocode", !.pos = p] \in locOps'
            \/ /\ locOps' = locOps \ {o}
               /\ locLast'.outcome = "failed"
               /\ ~locLoading' /\ locError' # NoError
       /\ LiveReadSucceeds(o) => ~o.cached
       /\ LocationSettles(o) =>
            /\ userLocation' # NoLocation
            /\ userLocation'.longitude = o.pos
            /\ locLast'.cached = o.cached]_vars

\* C15: every location request leaves Resolving and ends in Known, Denied
\* or Failed with the loading flag off, whether or not the live position
\* read returns, as long as the other device calls answer.
C15_RequestLeavesResolving ==
  locLoading ~>
    (~locLoading /\ LocationSession \in {"Known", "Denied", "Failed"})

\* the permission query answered not granted with canAskAgain false
CannotAskAgain(o) ==
  /\ o.phase = "perm"
  /\ \/ (locOps' = locOps \ {o} /\ locLast'.outcome = "blocked")
     \/ [o EXCEPT !.phase = "request", !.asked = TRUE, !.blocked = TRUE]
           \in locOps'

\* the error messages of a refused permission request and of the position
\* failures
OtherLocationErrors ==
  {"Location permission not granted",
   "Unable to retrieve location.",
   "Location request timed out",
   "Unable to get your current location.",
   "Location services are disabled. Please enable GPS in device settings."}

\* C16: when the permission is not granted and cannot be asked for again,
\* the request ends in Denied at once, without a permission request, with a
\* message of its own.
C16_BlockedPermissionFailsDistinctly ==
  [][\A o \in locOps :
       CannotAskAgain(o) =>
          /\ locOps' = locOps \ {o}
          /\ ~locLast'.asked
          /\ ~locLoading'
          /\ LocationSession' = "Denied"
          /\ locError' \notin OtherLocationErrors]_vars

\* points a distance is asked for
ProbePoints == {[longitude |-> 0], [longitude |-> 30]}

\* C17: calculateDistance gives null in Unknown, Denied and Failed, and while
\* Resolving before any success, and a distance in Known.
C17_DistanceNullUnlessKnown ==
  \A p \in ProbePoints :
    /\ LocationSession \in {"Unknown", "Denied", "Failed"} =>
         calculateDistance(p) = Undefined
    /\ (LocationSession = "Resolving" /\ locCount = 1) =>
         calculateDistance(p) = Undefined
    /\ LocationSession = "Known" => calculateDistance(p) # Undefined

PassingOtherStages == Range(TypeStage(PriceStage(QueryStage(spots))))

\* C9: with the session in Unknown, Denied or Failed, no listing is removed
\* for its distance.
C9_UnknownOriginKeepsAll ==
  LocationSession \in {"Unknown", "Denied", "Failed"} =>
    PassingOtherStages \subseteq Range(filteredSpots)

\* C10: with the origin known and the sort key distance, the result is in
\* non-decreasing order of distance.
C10_DistanceSortAscending ==
  (LocationSession = "Known" /\ sortBy = "distance") =>
    \A i, j \in 1..Len(filteredSpots) :
      i < j => calculateDistance(filteredSpots[i].location)
                 <= calculateDistance(filteredSpots[j].location)

\* the list handed to the sort stage
PreSort == TypeStage(DistanceStage(PriceStage(QueryStage(spots))))

\* a missing rating counts as 0
RatingOrZero(spot) == IF spot.rating = Undefined THEN 0 ELSE spot.rating

\* two listings have the same value of the sort key
KeyTie(a, b) ==
  CASE sortBy = "price" -> a.pricePerHour = b.pricePerHour
    [] sortBy = "rating" -> RatingOrZero(a) = RatingOrZero(b)
    [] OTHER -> \/ userLocation = NoLocation
                \/ calculateDistance(a.location) = calculateDistance(b.location)

PositionIn(list, spot) == CHOOSE k \in 1..Len(list) : list[k] = spot

\* C22: the sort stage is stable: under every sort key two listings with the
\* same key value (any two under distance with no origin) stand in the result
\* in the order they had before the sort.
C22_SortIsStable ==
  /\ Range(filteredSpots) = Range(PreSort)
  /\ Len(filteredSpots) = Len(PreSort)
  /\ \A i, j \in 1..Len(PreSort) :
       (i < j /\ KeyTie(PreSort[i], PreSort[j])) =>
          PositionIn(filteredSpots, PreSort[i])
            < PositionIn(filteredSpots, PreSort[j])

\* the sort key was set to rating; a listing rated 0 stood before one with
\* no rating, and the sort has left them so
C22_Witness ==
  /\ sortBy = "rating"
  /\ Len(PreSort) = 2
  /\ PreSort[1].rating = 0 /\ PreSort[2].rating = Undefined
  /\ filteredSpots = PreSort

\* C23: the price stage keeps a listing exactly when its pricePerHour is at
\* most the ceiling: one priced at the ceiling is kept, one priced one unit
\* above it is removed (prices count in units of one cent).
C23_PriceCeilingInclusive ==
  LET before == QueryStage(spots)
      after == PriceStage(before)
  IN /\ \A i \in 1..Len(before) :
          (before[i] \in Range(after)) <=> (before[i].pricePerHour <= maxPrice)
     /\ \A i \in 1..Len(filteredSpots) :
          filteredSpots[i].pricePerHour <= maxPrice

\* the ceiling was lowered to 10: a listing priced 10 is in the result, one
\* priced 11 that passes the other stages is not
C23_Witness ==
  /\ maxPrice = 10
  /\ \E i \in 1..Len(filteredSpots) : filteredSpots[i].pricePerHour = maxPrice
  /\ \E i \in 1..Len(spots) :
       /\ spots[i].pricePerHour = maxPrice + 1
       /\ spots[i] \notin Range(filteredSpots)
       /\ spots[i] \in Range(TypeStage(DistanceStage(QueryStage(spots))))

\* C24: with sort key rating the result is in non-increasing order of
\* rating, a missing rating counting as 0, so that every listing without a
\* rating comes after every listing with a positive one.
C24_RatingSortDescending ==
  sortBy = "rating" =>
    \A i, j \in 1..Len(filteredSpots) :
      /\ i < j =>
           RatingOrZero(filteredSpots[i]) >= RatingOrZero(filteredSpots[j])
      /\ (filteredSpots[i].rating = Undefined /\ filteredSpots[j].rating > 0)
           => j < i

\* the sort key was set to rating; a listing without a rating stood before
\* a rated one, and the sort has put it behind
C24_Witness ==
  /\ sortBy = "rating"
  /\ Len(PreSort) = 2
  /\ PreSort[1].rating = Undefined /\ PreSort[2].rating > 0
  /\ filteredSpots = <<PreSort[2], PreSort[1]>>

\* C25: the spot-type stage keeps every listing when the selection holds
\* "all", and otherwise keeps exactly the listings whose spotType is in the
\* selection.
C25_SpotTypeStage ==
  LET before == DistanceStage(PriceStage(QueryStage(spots)))
      after == TypeStage(before)
  IN /\ "all" \in selectedSpotTypes => after = before
     /\ "all" \notin selectedSpotTypes =>
          /\ \A i \in 1..Len(before) :
               (before[i] \in Range(after))
                 <=> (before[i].spotType \in selectedSpotTypes)
          /\ Range(after) \subseteq Range(before)
          /\ \A i \in 1..Len(filteredSpots) :
               filteredSpots[i].spotType \in selectedSpotTypes

\* the selection was set to garage: a garage is in the result and a
\* driveway that passes the other stages is not
C25_Witness ==
  /\ selectedSpotTypes = {"garage"}
  /\ \E i \in 1..Len(filteredSpots) : filteredSpots[i].spotType = "garage"
  /\ \E i \in 1..Len(spots) :
       /\ spots[i].spotType = "driveway"
       /\ spots[i] \in Range(DistanceStage(PriceStage(QueryStage(spots))))
       /\ spots[i] \notin Range(filteredSpots)

\* a call of updateUserProfile: the one operation that starts without
\* raising the loading flag
UpdateProfileCalled ==
  authCount' = authCount + 1 /\ ~authLoading /\ ~authLoading'

\* C26: updateProfile called with no identity held fails with the "no
\* identity" error, sends no backend write and leaves the store as it was.
C26_UpdateProfileNeedsIdentity ==
  [][(UpdateProfileCalled /\ user = NoUser) =>
       /\ authLast'.kind = "update"
       /\ authLast'.outcome = "No user logged in"
       /\ authOps' = authOps
       /\ UNCHANGED <<accounts, authUser, userDocs>>
       /\ UNCHANGED <<user, authLoading>>]_vars

\* a profile update was refused for want of an identity while an account
\* and its record exist in the backend: nothing is in flight, the record is
\* as the sign-up wrote it
C26_Witness ==
  /\ authLast.kind = "update" /\ authLast.outcome = "No user logged in"
  /\ user = NoUser /\ ~authLoading
  /\ authOps = {}
  /\ "u1" \in DOMAIN userDocs /\ userDocs["u1"].name = "Ann"

\* the last auth operation to finish was a sign-up or sign-in that returned
\* success, the store holds its identity, and signOut has not been called
SignedInAndKept ==
  /\ authLast.kind \in {"signUp", "signIn", "google"}
  /\ authLast.outcome = "ok"
  /\ user # NoUser /\ user.uid = authLast.uid
  /\ \A o \in authOps : o.kind # "signOut"

\* C27: once signUp or signIn has returned success the store keeps that
\* identity until signOut is called, whatever the order in which the
\* operation's continuation and the auth-state callback of the same sign-in
\* run.
C27_SessionStaysAuthenticated ==
  [][SignedInAndKept => (user' # NoUser /\ user'.uid = user.uid)]_vars

\* C28: mine never holds two listings with the same id, whatever the order
\* in which a create's continuation and the fetches of the owner's listings
\* run.
C28_MineHasUniqueIds ==
  \A i, j \in 1..Len(userSpots) :
    i # j => userSpots[i].id # userSpots[j].id

FetchInFlight == \E o \in ops : o.kind = "fetchMine"

\* C29: whenever no fetch of the owner's listings is in flight, every
\* listing of mine is owned by the identity the store holds, and mine is
\* empty when the store holds none; so also after the identity changed
\* while an earlier fetch was in flight.
C29_MineBelongsToIdentity ==
  ~FetchInFlight =>
    /\ \A i \in 1..Len(userSpots) : userSpots[i].ownerId = user.uid
    /\ user = NoUser => userSpots = << >>

\* C30: the loading flag is on in every state where a location request is
\* in flight, also when two requests overlap and the first ends before the
\* second.
C30_LoadingWhileInFlight ==
  locOps # {} => locLoading

====
